---- MODULE Spec2Model ----
(***************************************************************************)
(* KOFA offline sync manager (src/mobile/lib/offline.ts).                  *)
(*                                                                         *)
(* The persisted state is the five AsyncStorage keys of STORAGE_KEYS.      *)
(* Every exported async function is cut at its awaits: one action per      *)
(* stretch of code that runs between two awaits, the storage or network    *)
(* call that ends the stretch included.  A task is one invocation of an    *)
(* exported function by a caller (a UI event, a periodic timer).           *)
(*                                                                         *)
(* Abstractions:                                                           *)
(*  - a string built by a template literal is the tuple of its parts       *)
(*    (`sync-${Date.now()}-${suffix}` is <<"sync", now, suffix>>);         *)
(*  - JSON text is the list of <<key, value text>> pairs of an object and  *)
(*    the list of element texts of an array; JSON.stringify leaves out a   *)
(*    property whose value is undefined, and reading a property that a     *)
(*    parsed object lacks yields undefined;                                *)
(*  - two draws of Math.random() never give the same 9 character suffix    *)
(*    (36^9 values): the suffix is the number of the draw;                 *)
(*  - Date.now() and new Date() read one clock, which never goes back and  *)
(*    may give the same reading to two calls (millisecond resolution).     *)
(***************************************************************************)
EXTENDS Integers, Sequences, FiniteSets, TLC

\* ---------------------------------------------------------------- bounds
\* How many queue items are ever built (draws of Math.random()).
MaxIds == 3
\* The same, for the queue and its delivery alone (SpecQueue).
MaxIdsQueue == 3
\* The same, where the cache operations run beside the outbox (SpecStore).
MaxIdsStore == 1
\* The same, under storage faults (SpecFaulty).
MaxIdsFaulty == 2
\* The same, with two callers whose invocations overlap (SpecOverlap).
MaxIdsOverlap == 2
\* The same, with two callers that enqueue (SpecEnqueues).
MaxIdsEnqueues == 2
\* The same, with two callers that run passes (SpecPasses).
MaxIdsPasses == 1
\* The same, with one caller that enqueues and one that runs passes
\* (SpecFeed).
MaxIdsFeed == 3
\* The same, with one caller and a server that gives in (SpecDrain).
MaxIdsDrain == 2

\* ------------------------------------------------------------- constants
\* checkConnectivity aborts the health request after this many milliseconds.
ProbeTimeoutMs == 5000

\* The clock readings: two calls read the same millisecond, or the later one
\* reads the next.
ClockValues == {0, 1}

\* The two callers that invoke the module's functions.
Tasks == {"ui", "timer"}

\* STORAGE_KEYS
STORAGE_KEYS == [PRODUCTS_CACHE |-> "kofa_products_cache",
                 ORDERS_CACHE   |-> "kofa_orders_cache",
                 SYNC_QUEUE     |-> "kofa_sync_queue",
                 LAST_SYNC      |-> "kofa_last_sync",
                 OFFLINE_SALES  |-> "kofa_offline_sales"]

AllKeys == {STORAGE_KEYS.PRODUCTS_CACHE, STORAGE_KEYS.ORDERS_CACHE,
            STORAGE_KEYS.SYNC_QUEUE, STORAGE_KEYS.LAST_SYNC,
            STORAGE_KEYS.OFFLINE_SALES}

\* The JavaScript value undefined (of an optional property).
Undefined == "undefined"

\* What AsyncStorage.getItem resolves to: null, or the string stored.  A stored
\* string is JSON text, a plain string (the last-sync timestamp), or text
\* that JSON.parse rejects.
NullValue == [kind |-> "null", text |-> <<>>]
Garbage == [kind |-> "garbage", text |-> <<>>]
JSONText(t) == [kind |-> "json", text |-> t]
PlainText(t) == [kind |-> "plain", text |-> t]

\* `existing ? JSON.parse(existing) : []` tests the string for truthiness.
Truthy(v) == v.kind # "null"
\* JSON.parse throws a SyntaxError on anything but JSON text.
ParseThrows(v) == v.kind # "json"

\* obj[key] of a parsed object: undefined when the property is missing.
Prop(obj, key) ==
    LET hit == SelectSeq(obj, LAMBDA pr : pr[1] = key) IN
    IF hit = <<>> THEN Undefined ELSE hit[1][2]

\* A property of a stringified object: left out when its value is undefined.
\* (Only the optional string properties can be undefined.)
OptPair(key, v) == IF v = Undefined THEN <<>> ELSE << <<key, v>> >>

\* new Date().toISOString() of a clock reading.
ISOString(clk) == <<"iso", clk>>

\* ------------------------------------------------------ payloads and items
\* The payload of a queued action (`payload: any`): the properties the code
\* reads or writes.
StringifyPayload(p) ==
    OptPair("product_name", p.product_name)
    \o << <<"quantity", p.quantity>>,
          <<"amount_ngn", p.amount_ngn>> >>
    \o OptPair("channel", p.channel)
    \o OptPair("notes", p.notes)
    \o OptPair("product_id", p.product_id)

ParsePayload(t) ==
    [product_name |-> Prop(t, "product_name"),
     quantity     |-> Prop(t, "quantity"),
     amount_ngn   |-> Prop(t, "amount_ngn"),
     channel      |-> Prop(t, "channel"),
     notes        |-> Prop(t, "notes"),
     product_id   |-> Prop(t, "product_id")]

\* interface SyncQueueItem
StringifyItem(it) ==
    << <<"id", it.id>>,
       <<"action", it.action>>,
       <<"payload", StringifyPayload(it.payload)>>,
       <<"created_at", it.created_at>>,
       <<"retries", it.retries>> >>

ParseItem(t) ==
    [id         |-> Prop(t, "id"),
     action     |-> Prop(t, "action"),
     payload    |-> ParsePayload(Prop(t, "payload")),
     created_at |-> Prop(t, "created_at"),
     retries    |-> Prop(t, "retries")]

\* JSON.stringify(queue) and JSON.parse(existing) of the sync queue.
StringifyQueue(q) == JSONText([i \in 1..Len(q) |-> StringifyItem(q[i])])
ParseQueue(v) == [i \in 1..Len(v.text) |-> ParseItem(v.text[i])]

\* interface OfflineSale
StringifySale(s) ==
    << <<"product_name", s.product_name>>,
       <<"quantity", s.quantity>>,
       <<"amount_ngn", s.amount_ngn>>,
       <<"channel", s.channel>> >>
    \o OptPair("notes", s.notes)
    \o << <<"id", s.id>>,
          <<"created_at", s.created_at>>,
          <<"synced", s.synced>> >>

ParseSale(t) ==
    [product_name |-> Prop(t, "product_name"),
     quantity     |-> Prop(t, "quantity"),
     amount_ngn   |-> Prop(t, "amount_ngn"),
     channel      |-> Prop(t, "channel"),
     notes        |-> Prop(t, "notes"),
     id           |-> Prop(t, "id"),
     created_at   |-> Prop(t, "created_at"),
     synced       |-> Prop(t, "synced")]

StringifySales(s) == JSONText([i \in 1..Len(s) |-> StringifySale(s[i])])
ParseSales(v) == [i \in 1..Len(v.text) |-> ParseSale(v.text[i])]

\* A cached snapshot: JSON.stringify({products, cached_at}) and its parse.
\* A product or an order is an object with an id and a name.
StringifyEntity(e) == << <<"id", e.id>>, <<"name", e.name>> >>
ParseEntity(t) == [id |-> Prop(t, "id"), name |-> Prop(t, "name")]
StringifyEntities(l) == [i \in 1..Len(l) |-> StringifyEntity(l[i])]
ParseEntities(t) == [i \in 1..Len(t) |-> ParseEntity(t[i])]

\* ----------------------------------------------------------------- inputs
EmptyPayload == [product_name |-> Undefined, quantity |-> 0, amount_ngn |-> 0,
                 channel |-> Undefined, notes |-> Undefined,
                 product_id |-> Undefined]

\* addToSyncQueue(action, payload) calls; the second one carries an action
\* the switch of processSyncQueue does not know.
EnqueueInputs ==
    { <<"update_stock", [EmptyPayload EXCEPT !.product_id = "p1",
                           !.quantity = 5]>>,
      <<"delete_sale", [EmptyPayload EXCEPT !.product_name = "Shorts"]>> }

\* saveOfflineSale(sale) calls (the optional notes are not given).
SaleInputs ==
    { [product_name |-> "Ankara Shirt", quantity |-> 2, amount_ngn |-> 15000,
       channel |-> "whatsapp", notes |-> Undefined] }

EntityA == [id |-> "p1", name |-> "Shorts"]
EntityB == [id |-> "p2", name |-> "Ankara Shirt"]
\* cacheProducts(products) and cacheOrders(orders) calls.
CacheInputs == { <<>>, <<EntityA, EntityB>>, <<EntityB, EntityA>> }

\* ------------------------------------------------------------------ state
VARIABLES
    storage,   \* AsyncStorage: key -> null or the string stored
    fs,        \* "ok", or "failing": every AsyncStorage call rejects
    now,       \* the last clock reading
    draws,     \* how many times Math.random() was drawn
    task,      \* per caller: the invocation in progress and its locals
    issued,    \* history: the ids addToSyncQueue has returned, in order
    queuedSales, \* history: how many of them it returned to saveOfflineSale
    accepted   \* history: the ids of the items the server answered 2xx for

history == <<issued, queuedSales, accepted>>
vars == <<storage, fs, now, draws, task, history>>

\* A caller with no invocation in progress.  pc is the await the invocation
\* is suspended at; op the exported function invoked; caller the function of
\* this module that called the one running ("" for the outside caller).
IdleTask ==
    [pc |-> "idle", op |-> "", caller |-> "", arg |-> <<>>,
     item |-> <<>>, sale |-> <<>>, queue |-> <<>>, rmId |-> <<>>,
     sales |-> <<>>, snap |-> <<>>, i |-> 0, synced |-> 0, failed |-> 0,
     online |-> FALSE, lastSync |-> <<>>, ret |-> <<>>,
     \* the error last caught (and logged), or thrown to the caller:
     err |-> "",
     \* history of the invocation, read by no action:
     pre |-> <<>>, okIds |-> {}, failedIds |-> {}, probe |-> <<>>,
     kept |-> <<>>, start |-> <<>>, sent |-> <<>>, old |-> {}]

Init ==
    /\ storage = [k \in AllKeys |-> NullValue]
    /\ fs = "ok"
    /\ now = 0
    /\ draws = 0
    /\ task = [t \in Tasks |-> IdleTask]
    /\ issued = <<>>
    /\ queuedSales = 0
    /\ accepted = {}

\* A reading of the clock: not before the last one.
ClockReadings == {c \in ClockValues : now <= c /\ c <= now + 1}

\* await AsyncStorage.getItem(key) resolved with a value JSON.parse accepts
\* (or with null); otherwise the try block is left through its catch.
ReadOk(key) == fs = "ok" /\ ~(Truthy(storage[key]) /\ ParseThrows(storage[key]))

\* The error a try block that reads and parses is left with: the rejection
\* of getItem, or the SyntaxError of JSON.parse.
ReadError == IF fs = "ok" THEN "SyntaxError" ELSE "getItem"

\* ------------------------------------------------------------ sync queue
\* getSyncQueue(): the persisted queue, [] when missing or unreadable.
getSyncQueue ==
    IF ReadOk(STORAGE_KEYS.SYNC_QUEUE)
    THEN IF Truthy(storage[STORAGE_KEYS.SYNC_QUEUE])
         THEN ParseQueue(storage[STORAGE_KEYS.SYNC_QUEUE])
         ELSE <<>>
    ELSE <<>>

\* A faulty variant: the enqueue counts as the first attempt
NewItemCounted(action, payload, clk, suffix) ==
    [id         |-> <<"sync", clk, suffix>>,
     action     |-> action,
     payload    |-> payload,
     created_at |-> ISOString(clk),
     retries    |-> 1]

\* The queueItem literal of addToSyncQueue.
NewItem(action, payload, clk, suffix) ==
    [id         |-> <<"sync", clk, suffix>>,
     action     |-> action,
     payload    |-> payload,
     created_at |-> ISOString(clk),
     retries    |-> 0]

\* A faulty variant: queue.unshift(queueItem)
PushFront(queue, item) == <<item>> \o queue

\* queue.push(queueItem)
Push(queue, item) == Append(queue, item)

\* A faulty variant: queue.filter(item => item.id === id)
FilteredInverted(queue, id) == SelectSeq(queue, LAMBDA item : item.id = id)

\* A faulty variant: queue.slice(1): the id is taken to be the head's
FilteredHead(queue, id) == IF queue = <<>> THEN <<>> ELSE Tail(queue)

\* queue.filter(item => item.id !== id)
Filtered(queue, id) == SelectSeq(queue, LAMBDA item : item.id # id)

\* addToSyncQueue, up to its first await: the item is built.  b bounds the
\* number of items ever built.
AddCall(t, b) ==
    /\ task[t].pc = "idle"
    /\ draws < b
    /\ \E in \in EnqueueInputs, clk \in ClockReadings :
          /\ now' = clk
          /\ task' = [task EXCEPT ![t] =
                [IdleTask EXCEPT !.pc = "add_get", !.op = "addToSyncQueue",
                                 !.arg = in,
                                 !.item = NewItem(in[1], in[2], clk, draws)]]
    /\ draws' = draws + 1
    /\ UNCHANGED <<storage, fs, history>>

\* addToSyncQueue: getItem resolves; parse, push.  A rejected read or a
\* SyntaxError is logged and rethrown (and saveOfflineSale rethrows it too).
AddGet(t) ==
    /\ task[t].pc = "add_get"
    /\ IF ReadOk(STORAGE_KEYS.SYNC_QUEUE)
       THEN task' = [task EXCEPT ![t].pc = "add_set",
                                 ![t].queue = Push(getSyncQueue, task[t].item)]
       ELSE task' = [task EXCEPT ![t].pc = "threw", ![t].err = ReadError]
    /\ UNCHANGED <<storage, fs, now, draws, history>>

\* A faulty variant: the item is appended to the list as it is stored when
\* the write is made, not to the list read before
AddSetMerging(t) ==
    /\ task[t].pc = "add_set"
    /\ IF fs = "ok"
       THEN /\ storage' = [storage EXCEPT ![STORAGE_KEYS.SYNC_QUEUE] =
                              StringifyQueue(Push(getSyncQueue, task[t].item))]
            /\ issued' = Append(issued, task[t].item.id)
            /\ queuedSales' = IF task[t].caller = "saveOfflineSale"
                               THEN queuedSales + 1
                               ELSE queuedSales
            /\ task' = [task EXCEPT ![t].pc = "done",
                          ![t].ret = IF task[t].caller = "saveOfflineSale"
                                     THEN task[t].sale
                                     ELSE task[t].item.id]
       ELSE /\ task' = [task EXCEPT ![t].pc = "threw", ![t].err = "setItem"]
            /\ UNCHANGED <<storage, issued, queuedSales>>
    /\ UNCHANGED <<fs, now, draws, accepted>>

\* addToSyncQueue: setItem resolves; the id is returned.  Called from
\* saveOfflineSale, the sale is returned in turn.
AddSet(t) ==
    /\ task[t].pc = "add_set"
    /\ IF fs = "ok"
       THEN /\ storage' = [storage EXCEPT ![STORAGE_KEYS.SYNC_QUEUE] =
                              StringifyQueue(task[t].queue)]
            /\ issued' = Append(issued, task[t].item.id)
            /\ queuedSales' = IF task[t].caller = "saveOfflineSale"
                               THEN queuedSales + 1
                               ELSE queuedSales
            /\ task' = [task EXCEPT ![t].pc = "done",
                          ![t].ret = IF task[t].caller = "saveOfflineSale"
                                     THEN task[t].sale
                                     ELSE task[t].item.id]
       ELSE /\ task' = [task EXCEPT ![t].pc = "threw", ![t].err = "setItem"]
            /\ UNCHANGED <<storage, issued, queuedSales>>
    /\ UNCHANGED <<fs, now, draws, accepted>>

\* getSyncQueue() called from outside.
ListCall(t) ==
    /\ task[t].pc = "idle"
    /\ task' = [task EXCEPT ![t] =
          [IdleTask EXCEPT !.pc = "done", !.op = "getSyncQueue",
                           !.ret = getSyncQueue]]
    /\ UNCHANGED <<storage, fs, now, draws, history>>

\* The ids a caller may pass to removeFromSyncQueue: any id ever returned,
\* and one that never was.
StrangerId == <<"sync", 0, -1>>
RemoveInputs == {issued[k] : k \in 1..Len(issued)} \cup {StrangerId}

\* removeFromSyncQueue(id) called from outside.
RemoveCall(t) ==
    /\ task[t].pc = "idle"
    /\ \E id \in RemoveInputs :
          task' = [task EXCEPT ![t] =
              [IdleTask EXCEPT !.pc = "rm_get", !.op = "removeFromSyncQueue",
                               !.arg = id, !.rmId = id]]
    /\ UNCHANGED <<storage, fs, now, draws, history>>

\* A faulty variant: the loop counts the item before and after the removal
AfterRemoveCountedTwice(r) ==
    IF r.caller = "processSyncQueue"
    THEN [r EXCEPT !.pc = "pq_loop", !.caller = "", !.synced = r.synced + 2,
                   !.i = r.i + 1, !.queue = <<>>, !.rmId = <<>>,
                   !.pre = <<>>]
    ELSE [r EXCEPT !.pc = "done", !.queue = <<>>, !.rmId = <<>>]

\* removeFromSyncQueue has returned: to the outside caller, or into the loop
\* of processSyncQueue, which counts the item (synced++) and goes on.
AfterRemove(r) ==
    IF r.caller = "processSyncQueue"
    THEN [r EXCEPT !.pc = "pq_loop", !.caller = "", !.synced = r.synced + 1,
                   !.i = r.i + 1, !.queue = <<>>, !.rmId = <<>>,
                   !.pre = <<>>]
    ELSE [r EXCEPT !.pc = "done", !.queue = <<>>, !.rmId = <<>>]

\* removeFromSyncQueue: getItem resolves; parse, filter.  An error is logged
\* and swallowed.
RemoveGet(t) ==
    /\ task[t].pc = "rm_get"
    /\ IF ReadOk(STORAGE_KEYS.SYNC_QUEUE)
       THEN task' = [task EXCEPT ![t].pc = "rm_set",
                        ![t].queue = Filtered(getSyncQueue, task[t].rmId),
                        ![t].pre = getSyncQueue]
       ELSE task' = [task EXCEPT ![t] =
                        AfterRemove([task[t] EXCEPT !.err = ReadError])]
    /\ UNCHANGED <<storage, fs, now, draws, history>>

\* removeFromSyncQueue: setItem resolves (or rejects, which is swallowed).
RemoveSet(t) ==
    /\ task[t].pc = "rm_set"
    /\ IF fs = "ok"
       THEN /\ storage' = [storage EXCEPT ![STORAGE_KEYS.SYNC_QUEUE] =
                              StringifyQueue(task[t].queue)]
            /\ task' = [task EXCEPT ![t] = AfterRemove(task[t])]
       ELSE /\ UNCHANGED storage
            /\ task' = [task EXCEPT ![t] =
                           AfterRemove([task[t] EXCEPT !.err = "setItem"])]
    /\ UNCHANGED <<fs, now, draws, history>>

\* ----------------------------------------------------------- offline sales
\* getOfflineSales(): the persisted sales, [] when missing or unreadable.
getOfflineSales ==
    IF ReadOk(STORAGE_KEYS.OFFLINE_SALES)
    THEN IF Truthy(storage[STORAGE_KEYS.OFFLINE_SALES])
         THEN ParseSales(storage[STORAGE_KEYS.OFFLINE_SALES])
         ELSE <<>>
    ELSE <<>>

\* A faulty variant: a sale is recorded as synced already
NewSaleSynced(sale, clk) ==
    [product_name |-> sale.product_name,
     quantity     |-> sale.quantity,
     amount_ngn   |-> sale.amount_ngn,
     channel      |-> sale.channel,
     notes        |-> sale.notes,
     id           |-> <<"offline-sale", clk>>,
     created_at   |-> ISOString(clk),
     synced       |-> TRUE]

\* The offlineSale literal of saveOfflineSale.
NewSale(sale, clk) ==
    [product_name |-> sale.product_name,
     quantity     |-> sale.quantity,
     amount_ngn   |-> sale.amount_ngn,
     channel      |-> sale.channel,
     notes        |-> sale.notes,
     id           |-> <<"offline-sale", clk>>,
     created_at   |-> ISOString(clk),
     synced       |-> FALSE]

\* A faulty variant: quantity and amount_ngn change places
SalePayloadSwapped(sale) ==
    [product_name |-> sale.product_name,
     quantity     |-> sale.amount_ngn,
     amount_ngn   |-> sale.quantity,
     channel      |-> sale.channel,
     notes        |-> sale.notes,
     product_id   |-> Undefined]

\* The payload saveOfflineSale hands to addToSyncQueue.
SalePayload(sale) ==
    [product_name |-> sale.product_name,
     quantity     |-> sale.quantity,
     amount_ngn   |-> sale.amount_ngn,
     channel      |-> sale.channel,
     notes        |-> sale.notes,
     product_id   |-> Undefined]

\* saveOfflineSale, up to its first await: the sale is built.
SaleCall(t, b) ==
    /\ task[t].pc = "idle"
    /\ draws < b
    /\ \E in \in SaleInputs, clk \in ClockReadings :
          /\ now' = clk
          /\ task' = [task EXCEPT ![t] =
                [IdleTask EXCEPT !.pc = "sale_get", !.op = "saveOfflineSale",
                                 !.arg = in, !.sale = NewSale(in, clk),
                                 !.pre = <<Len(getOfflineSales), Len(getSyncQueue)>>]]
    /\ UNCHANGED <<storage, fs, draws, history>>

\* saveOfflineSale: getItem resolves; parse, push.  An error is logged and
\* rethrown.
SaleGet(t) ==
    /\ task[t].pc = "sale_get"
    /\ IF ReadOk(STORAGE_KEYS.OFFLINE_SALES)
       THEN task' = [task EXCEPT ![t].pc = "sale_set",
                        ![t].sales = Append(getOfflineSales, task[t].sale)]
       ELSE task' = [task EXCEPT ![t].pc = "threw", ![t].err = ReadError]
    /\ UNCHANGED <<storage, fs, now, draws, history>>

\* saveOfflineSale: setItem resolves, and addToSyncQueue('create_sale', ...)
\* is called, which builds its item.
SaleSet(t) ==
    /\ task[t].pc = "sale_set"
    /\ IF fs = "ok"
       THEN /\ storage' = [storage EXCEPT ![STORAGE_KEYS.OFFLINE_SALES] =
                              StringifySales(task[t].sales)]
            /\ \E clk \in ClockReadings :
                  /\ now' = clk
                  /\ task' = [task EXCEPT ![t].pc = "add_get",
                                ![t].caller = "saveOfflineSale",
                                ![t].item = NewItem("create_sale",
                                              SalePayload(task[t].arg), clk, draws)]
            /\ draws' = draws + 1
       ELSE /\ task' = [task EXCEPT ![t].pc = "threw", ![t].err = "setItem"]
            /\ UNCHANGED <<storage, now, draws>>
    /\ UNCHANGED <<fs, history>>

\* getOfflineSales() called from outside.
SalesCall(t) ==
    /\ task[t].pc = "idle"
    /\ task' = [task EXCEPT ![t] =
          [IdleTask EXCEPT !.pc = "done", !.op = "getOfflineSales",
                           !.ret = getOfflineSales]]
    /\ UNCHANGED <<storage, fs, now, draws, history>>

\* ------------------------------------------------------- processSyncQueue
\* How a delivery attempt ends: a 2xx status, another status, or fetch
\* rejecting (no network).
Responses == {"ok", "reject", "neterr"}

\* A faulty variant: if (response): any response counts as accepted
ResponseAlwaysOk(r) == TRUE

\* A faulty variant: no response counts as accepted
ResponseNeverOk(r) == FALSE

\* response.ok
ResponseOk(r) == r = "ok"

\* A faulty variant: the default branch lacks its continue, and the request
\* goes to the base URL
EndpointNoContinue(item) ==
    CASE item.action = "create_sale"    -> <<"/sales/manual">>
      [] item.action = "create_order"   -> <<"/orders">>
      [] item.action = "update_stock"   ->
             <<"/products/", item.payload.product_id, "/restock">>
      [] item.action = "create_expense" -> <<"/expenses">>
      [] OTHER -> <<"">>

\* The switch on item.action: the path of the request, <<>> for the default
\* branch (the item is skipped).
Endpoint(item) ==
    CASE item.action = "create_sale"    -> <<"/sales/manual">>
      [] item.action = "create_order"   -> <<"/orders">>
      [] item.action = "update_stock"   ->
             <<"/products/", item.payload.product_id, "/restock">>
      [] item.action = "create_expense" -> <<"/expenses">>
      [] OTHER -> <<>>

\* A faulty variant: const remaining = queue.length
RemainingAll(queue, synced) == Len(queue)

\* const remaining = queue.length - synced
Remaining(queue, synced) == Len(queue) - synced

\* A faulty variant: a pass that begins while another one is in progress
\* has nothing to do
PQCallExclusive(t) ==
    /\ task[t].pc = "idle"
    /\ task' = [task EXCEPT ![t] =
          [IdleTask EXCEPT !.pc = "pq_loop", !.op = "processSyncQueue",
                           !.snap = IF \E u \in Tasks \ {t} :
                                          /\ task[u].op = "processSyncQueue"
                                          /\ task[u].pc \notin {"done", "threw"}
                                    THEN <<>>
                                    ELSE getSyncQueue,
                           !.i = 1,
                           !.kept = storage[STORAGE_KEYS.LAST_SYNC],
                           !.start = getSyncQueue]]
    /\ UNCHANGED <<storage, fs, now, draws, history>>

\* A faulty variant: an item is given up after its first failed attempt
NewPassAbandoning(prev) ==
    [IdleTask EXCEPT !.pc = "pq_loop", !.op = "processSyncQueue",
                     !.snap = SelectSeq(getSyncQueue,
                                        LAMBDA item : item.id \notin prev),
                     !.i = 1,
                     !.kept = storage[STORAGE_KEYS.LAST_SYNC],
                     !.start = getSyncQueue, !.old = prev]

\* The locals of a pass whose getSyncQueue() has resolved; prev (history) is
\* the ids the caller's last pass was refused.
NewPass(prev) ==
    [IdleTask EXCEPT !.pc = "pq_loop", !.op = "processSyncQueue",
                     !.snap = getSyncQueue, !.i = 1,
                     !.kept = storage[STORAGE_KEYS.LAST_SYNC],
                     !.start = getSyncQueue, !.old = prev]

\* processSyncQueue: getSyncQueue() resolves with the snapshot.
PQCall(t) ==
    /\ task[t].pc = "idle"
    /\ task' = [task EXCEPT ![t] = NewPass({})]
    /\ UNCHANGED <<storage, fs, now, draws, history>>

\* processSyncQueue called again as soon as the caller's last pass has
\* returned.
PQAgain(t) ==
    /\ task[t].pc = "done"
    /\ task[t].op = "processSyncQueue"
    /\ task' = [task EXCEPT ![t] = NewPass(task[t].failedIds)]
    /\ UNCHANGED <<storage, fs, now, draws, history>>

\* A faulty variant: the loop runs from the end of the snapshot
CurrentFromEnd(t) == task[t].snap[Len(task[t].snap) + 1 - task[t].i]

\* for (const item of queue): the item of the iteration
Current(t) == task[t].snap[task[t].i]

\* The loop body for snap[i], up to its await: an unknown action is skipped;
\* otherwise the request is sent and fetch settles with r.
PQAttempt(t) ==
    /\ task[t].pc = "pq_loop"
    /\ task[t].i <= Len(task[t].snap)
    /\ LET item == Current(t) IN
       IF Endpoint(item) = <<>>
       THEN /\ task' = [task EXCEPT ![t].i = task[t].i + 1]
            /\ UNCHANGED accepted
       ELSE \E r \in Responses :
              /\ accepted' = IF r = "ok" THEN accepted \cup {item.id} ELSE accepted
              /\ LET seen == [task[t] EXCEPT
                                 !.sent = Append(@, item.id),
                                 !.okIds = IF r = "ok" THEN @ \cup {item.id} ELSE @,
                                 !.failedIds = IF r = "ok" THEN @ ELSE @ \cup {item.id}]
                 IN
                 IF r = "neterr"
                 THEN task' = [task EXCEPT ![t] =
                                  [seen EXCEPT !.failed = @ + 1, !.i = @ + 1]]
                 ELSE IF ResponseOk(r)
                 THEN task' = [task EXCEPT ![t] =
                                  [seen EXCEPT !.pc = "rm_get",
                                               !.caller = "processSyncQueue",
                                               !.rmId = item.id]]
                 ELSE task' = [task EXCEPT ![t] =
                                  [seen EXCEPT !.failed = @ + 1, !.i = @ + 1]]
    /\ UNCHANGED <<storage, fs, now, draws, issued, queuedSales>>

\* A faulty variant: the last-sync time is written after every pass
StampAlways(synced) == TRUE

\* if (synced > 0)
StampDue(synced) == synced > 0

\* After the loop: the last-sync time is written when something was synced
\* (a rejected write is not caught), and the summary is returned.
PQFinish(t) ==
    /\ task[t].pc = "pq_loop"
    /\ task[t].i > Len(task[t].snap)
    /\ LET summary == [synced    |-> task[t].synced,
                       failed    |-> task[t].failed,
                       remaining |-> Remaining(task[t].snap, task[t].synced)] IN
       IF StampDue(task[t].synced)
       THEN IF fs = "ok"
            THEN \E clk \in ClockReadings :
                   /\ now' = clk
                   /\ storage' = [storage EXCEPT ![STORAGE_KEYS.LAST_SYNC] =
                                     PlainText(ISOString(clk))]
                   /\ task' = [task EXCEPT ![t].pc = "done", ![t].ret = summary]
            ELSE /\ task' = [task EXCEPT ![t].pc = "threw",
                                             ![t].err = "setItem"]
                 /\ UNCHANGED <<storage, now>>
       ELSE /\ task' = [task EXCEPT ![t].pc = "done", ![t].ret = summary]
            /\ UNCHANGED <<storage, now>>
    /\ UNCHANGED <<fs, draws, history>>

\* ------------------------------------------------------------------ cache
\* What getCachedProducts and getCachedOrders resolve to: null, or the list.
NullResult == [isNull |-> TRUE, items |-> <<>>]
ListResult(l) == [isNull |-> FALSE, items |-> l]

\* A faulty variant: the new list is appended to the cached one
SnapshotMerged(prop, l, clk) ==
    LET key == IF prop = "products" THEN STORAGE_KEYS.PRODUCTS_CACHE
                                    ELSE STORAGE_KEYS.ORDERS_CACHE
        old == IF storage[key].kind = "json" THEN Prop(storage[key].text, prop)
                                             ELSE <<>>
    IN JSONText(<< <<prop, old \o StringifyEntities(l)>>,
                   <<"cached_at", ISOString(clk)>> >>)

\* JSON.stringify({products, cached_at}) / JSON.stringify({orders, cached_at})
Snapshot(prop, l, clk) ==
    JSONText(<< <<prop, StringifyEntities(l)>>, <<"cached_at", ISOString(clk)>> >>)

\* The body shared by getCachedProducts (key PRODUCTS_CACHE, data.products)
\* and getCachedOrders (key ORDERS_CACHE, data.orders).
GetCached(key, prop) ==
    IF ReadOk(key)
    THEN IF Truthy(storage[key])
         THEN ListResult(ParseEntities(Prop(storage[key].text, prop)))
         ELSE NullResult
    ELSE NullResult

getCachedProducts == GetCached(STORAGE_KEYS.PRODUCTS_CACHE, "products")
getCachedOrders == GetCached(STORAGE_KEYS.ORDERS_CACHE, "orders")

\* A faulty variant: the catch block resets the key
CacheDropsOnFailure(t, op, key, prop) ==
    /\ task[t].pc = "idle"
    /\ \E l \in CacheInputs, clk \in ClockReadings :
          /\ now' = clk
          /\ IF fs = "ok"
             THEN storage' = [storage EXCEPT ![key] = Snapshot(prop, l, clk)]
             ELSE storage' = [storage EXCEPT ![key] = NullValue]
          /\ task' = [task EXCEPT ![t] =
                [IdleTask EXCEPT !.pc = "done", !.op = op, !.arg = l,
                                 !.err = IF fs = "ok" THEN "" ELSE "setItem",
                                 !.pre = GetCached(key, prop),
                                 !.kept = storage[key]]]
    /\ UNCHANGED <<fs, draws, history>>

\* The body shared by cacheProducts and cacheOrders: one setItem; a rejection
\* is logged and swallowed.
Cache(t, op, key, prop) ==
    /\ task[t].pc = "idle"
    /\ \E l \in CacheInputs, clk \in ClockReadings :
          /\ now' = clk
          /\ IF fs = "ok"
             THEN storage' = [storage EXCEPT ![key] = Snapshot(prop, l, clk)]
             ELSE UNCHANGED storage
          /\ task' = [task EXCEPT ![t] =
                [IdleTask EXCEPT !.pc = "done", !.op = op, !.arg = l,
                                 !.err = IF fs = "ok" THEN "" ELSE "setItem",
                                 !.pre = GetCached(key, prop),
                                 !.kept = storage[key]]]
    /\ UNCHANGED <<fs, draws, history>>

cacheProducts(t) == Cache(t, "cacheProducts", STORAGE_KEYS.PRODUCTS_CACHE, "products")
cacheOrders(t) == Cache(t, "cacheOrders", STORAGE_KEYS.ORDERS_CACHE, "orders")

\* getCachedProducts() / getCachedOrders() called from outside.
CachedProductsCall(t) ==
    /\ task[t].pc = "idle"
    /\ task' = [task EXCEPT ![t] =
          [IdleTask EXCEPT !.pc = "done", !.op = "getCachedProducts",
                           !.ret = getCachedProducts]]
    /\ UNCHANGED <<storage, fs, now, draws, history>>

CachedOrdersCall(t) ==
    /\ task[t].pc = "idle"
    /\ task' = [task EXCEPT ![t] =
          [IdleTask EXCEPT !.pc = "done", !.op = "getCachedOrders",
                           !.ret = getCachedOrders]]
    /\ UNCHANGED <<storage, fs, now, draws, history>>

\* A faulty variant: the queue key is missing from the list
ClearedKeysNoQueue == {STORAGE_KEYS.PRODUCTS_CACHE, STORAGE_KEYS.ORDERS_CACHE,
                       STORAGE_KEYS.LAST_SYNC, STORAGE_KEYS.OFFLINE_SALES}

\* The keys clearAllCache hands to multiRemove.
ClearedKeys == {STORAGE_KEYS.PRODUCTS_CACHE, STORAGE_KEYS.ORDERS_CACHE,
                STORAGE_KEYS.SYNC_QUEUE, STORAGE_KEYS.LAST_SYNC,
                STORAGE_KEYS.OFFLINE_SALES}

\* clearAllCache(): one multiRemove; a rejection is logged and swallowed.
clearAllCache(t) ==
    /\ task[t].pc = "idle"
    /\ IF fs = "ok"
       THEN storage' = [k \in AllKeys |->
                          IF k \in ClearedKeys THEN NullValue ELSE storage[k]]
       ELSE UNCHANGED storage
    /\ task' = [task EXCEPT ![t] =
          [IdleTask EXCEPT !.pc = "done", !.op = "clearAllCache",
                           !.err = IF fs = "ok" THEN "" ELSE "multiRemove",
                           !.pre = {k \in AllKeys : Truthy(storage[k])}]]
    /\ UNCHANGED <<fs, now, draws, history>>

\* ----------------------------------------------------------- connectivity
\* How long the health endpoint takes to settle, in milliseconds: well within
\* the timeout, well beyond it, never.
Latencies == {120, 9000, -1}

\* A faulty variant: setTimeout(..., 50000)
TimesOutLate(latency) == latency < 0 \/ latency >= 10 * ProbeTimeoutMs

\* The timer fires before fetch settles (-1: the endpoint never answers).
TimesOut(latency) == latency < 0 \/ latency >= ProbeTimeoutMs

\* checkConnectivity, up to its await: the timer is set, the request sent.
ProbeCall(t) ==
    /\ task[t].pc = "idle"
    /\ task' = [task EXCEPT ![t] =
          [IdleTask EXCEPT !.pc = "probe_wait", !.op = "checkConnectivity"]]
    /\ UNCHANGED <<storage, fs, now, draws, history>>

\* checkConnectivity: fetch settles, with a response, or rejecting (no
\* network, or aborted by the timer); the catch returns false.  A request
\* that is never answered and never aborted does not settle.
ProbeSettle(t) ==
    /\ task[t].pc = "probe_wait"
    /\ \E latency \in Latencies, r \in Responses :
          /\ TimesOut(latency) \/ latency >= 0
          /\ LET isOnline == IF TimesOut(latency) \/ r = "neterr"
                              THEN FALSE
                              ELSE ResponseOk(r)
             IN
             IF task[t].caller = "getSyncStatus"
             THEN task' = [task EXCEPT ![t].pc = "st_last", ![t].caller = "",
                                       ![t].probe = <<latency, r>>,
                                       ![t].online = isOnline]
             ELSE task' = [task EXCEPT ![t].pc = "done",
                                       ![t].probe = <<latency, r>>,
                                       ![t].ret = isOnline]
    /\ UNCHANGED <<storage, fs, now, draws, history>>

\* ------------------------------------------------------------ sync status
\* getSyncStatus, up to its first await: checkConnectivity is called.
StatusCall(t) ==
    /\ task[t].pc = "idle"
    /\ task' = [task EXCEPT ![t] =
          [IdleTask EXCEPT !.pc = "probe_wait", !.op = "getSyncStatus",
                           !.caller = "getSyncStatus"]]
    /\ UNCHANGED <<storage, fs, now, draws, history>>

\* getSyncStatus: getItem(LAST_SYNC) resolves; no try block is around it.
StatusLast(t) ==
    /\ task[t].pc = "st_last"
    /\ IF fs = "ok"
       THEN task' = [task EXCEPT ![t].pc = "st_queue",
                        ![t].lastSync = storage[STORAGE_KEYS.LAST_SYNC]]
       ELSE task' = [task EXCEPT ![t].pc = "threw", ![t].err = "getItem"]
    /\ UNCHANGED <<storage, fs, now, draws, history>>

\* getSyncStatus: getSyncQueue() resolves.
StatusQueue(t) ==
    /\ task[t].pc = "st_queue"
    /\ task' = [task EXCEPT ![t].pc = "st_cache", ![t].queue = getSyncQueue]
    /\ UNCHANGED <<storage, fs, now, draws, history>>

\* data.products?.length || 0 of the parsed products cache
CachedCount(v) ==
    IF \E i \in 1..Len(v.text) : v.text[i][1] = "products"
    THEN Len(Prop(v.text, "products"))
    ELSE 0

\* getSyncStatus: getItem(PRODUCTS_CACHE) resolves; the string is parsed
\* outside any try block, and the status is returned.
StatusCache(t) ==
    /\ task[t].pc = "st_cache"
    /\ LET v == storage[STORAGE_KEYS.PRODUCTS_CACHE] IN
       IF ~ReadOk(STORAGE_KEYS.PRODUCTS_CACHE)
       THEN task' = [task EXCEPT ![t].pc = "threw", ![t].err = ReadError]
       ELSE task' = [task EXCEPT ![t].pc = "done",
                        ![t].ret = [isOnline       |-> task[t].online,
                                    lastSyncAt     |-> task[t].lastSync,
                                    pendingActions |-> Len(task[t].queue),
                                    cachedProducts |->
                                        IF Truthy(v) THEN CachedCount(v) ELSE 0]]
    /\ UNCHANGED <<storage, fs, now, draws, history>>

\* ------------------------------------------------------------------- next
\* The caller takes the result (or the rejection) of a finished invocation.
Return(t) ==
    /\ task[t].pc \in {"done", "threw"}
    /\ task' = [task EXCEPT ![t] = IdleTask]
    /\ UNCHANGED <<storage, fs, now, draws, history>>

\* The outbox: queue, offline sales, delivery.
QueueStep(t, b) ==
    \/ AddCall(t, b) \/ AddGet(t) \/ AddSet(t)
    \/ ListCall(t)
    \/ RemoveCall(t) \/ RemoveGet(t) \/ RemoveSet(t)
    \/ SaleCall(t, b) \/ SaleGet(t) \/ SaleSet(t)
    \/ SalesCall(t)
    \/ PQCall(t) \/ PQAttempt(t) \/ PQFinish(t)
    \/ clearAllCache(t)

\* The cache, the probe, the wipe.
CacheStep(t) ==
    \/ cacheProducts(t) \/ cacheOrders(t)
    \/ CachedProductsCall(t) \/ CachedOrdersCall(t)
    \/ ProbeCall(t) \/ ProbeSettle(t)

\* The status report.
StatusStep(t) ==
    \/ StatusCall(t) \/ StatusLast(t) \/ StatusQueue(t) \/ StatusCache(t)

\* The outbox with one caller: every invocation completes before the next
\* one starts.
Next == QueueStep("ui", MaxIds) \/ Return("ui")

Spec == Init /\ [][Next]_vars

\* The functions that rewrite the queue.
MutationStep(t, b) ==
    \/ AddCall(t, b) \/ AddGet(t) \/ AddSet(t)
    \/ RemoveCall(t) \/ RemoveGet(t) \/ RemoveSet(t)
    \/ PQCall(t) \/ PQAttempt(t) \/ PQFinish(t)

\* The queue and its delivery with one caller: the outbox without the
\* offline sales.
NextQueue ==
    \/ MutationStep("ui", MaxIdsQueue) \/ ListCall("ui") \/ clearAllCache("ui")
    \/ Return("ui")

SpecQueue == Init /\ [][NextQueue]_vars

\* ----------------------------------------------------------------- faults
\* AsyncStorage starts rejecting every call (disk full, database locked),
\* and recovers.
StorageBreaks ==
    /\ fs = "ok"
    /\ fs' = "failing"
    /\ UNCHANGED <<storage, now, draws, task, history>>

StorageRecovers ==
    /\ fs = "failing"
    /\ fs' = "ok"
    /\ UNCHANGED <<storage, now, draws, task, history>>

\* A stored JSON text is damaged: JSON.parse rejects it from now on.
Corrupt ==
    /\ \E k \in AllKeys :
          /\ storage[k].kind = "json"
          /\ storage' = [storage EXCEPT ![k] = Garbage]
    /\ UNCHANGED <<fs, now, draws, task, history>>

\* The app is killed while an invocation is suspended at an await: the
\* invocation is gone, the storage stays.
Kill(t) ==
    /\ task[t].pc \notin {"idle", "done", "threw"}
    /\ task' = [task EXCEPT ![t] = IdleTask]
    /\ UNCHANGED <<storage, fs, now, draws, history>>

\* The outbox with one caller, a storage that may fail or be damaged, and an
\* app that may be killed.
NextFaulty ==
    \/ QueueStep("ui", MaxIdsFaulty) \/ Return("ui")
    \/ StorageBreaks \/ StorageRecovers \/ Corrupt \/ Kill("ui")

SpecFaulty == Init /\ [][NextFaulty]_vars

\* The whole store with one caller.
NextStore ==
    \/ QueueStep("ui", MaxIdsStore) \/ CacheStep("ui") \/ StatusStep("ui")
    \/ Return("ui")

SpecStore == Init /\ [][NextStore]_vars

\* The queue with two callers (a UI event and a periodic timer): an
\* invocation of one runs between two awaits of the other's.  Nothing in the
\* module keeps a function from being invoked while another invocation, of
\* the same function or not, is suspended.
NextOverlap == \E t \in Tasks : MutationStep(t, MaxIdsOverlap) \/ Return(t)

SpecOverlap == Init /\ [][NextOverlap]_vars

\* The caches and the status report with one caller and a storage that may
\* fail.
NextCacheFaulty ==
    \/ CacheStep("ui") \/ StatusStep("ui") \/ clearAllCache("ui")
    \/ Return("ui")
    \/ StorageBreaks \/ StorageRecovers

SpecCacheFaulty == Init /\ [][NextCacheFaulty]_vars

\* Two callers that enqueue and read the queue.
NextEnqueues ==
    \E t \in Tasks :
        \/ AddCall(t, MaxIdsEnqueues) \/ AddGet(t) \/ AddSet(t)
        \/ ListCall(t) \/ Return(t)

SpecEnqueues == Init /\ [][NextEnqueues]_vars

\* processSyncQueue with its removals.
PassStep(t) ==
    \/ PQCall(t) \/ PQAttempt(t) \/ PQFinish(t)
    \/ RemoveGet(t) \/ RemoveSet(t)

\* The queue operations, one caller, with passes run back to back.
NextRetry == NextQueue \/ PQAgain("ui")

SpecRetry == Init /\ [][NextRetry]_vars

\* A UI that enqueues, and passes begun by the UI and by the timer.
NextPasses ==
    \/ AddCall("ui", MaxIdsPasses) \/ AddGet("ui") \/ AddSet("ui")
    \/ \E t \in Tasks : PassStep(t) \/ Return(t)

SpecPasses == Init /\ [][NextPasses]_vars

\* A UI that enqueues while the timer runs passes.
NextFeed ==
    \/ AddCall("ui", MaxIdsFeed) \/ AddGet("ui") \/ AddSet("ui")
    \/ PassStep("timer")
    \/ Return("ui") \/ Return("timer")

SpecFeed == Init /\ [][NextFeed]_vars

\* The action kinds of SyncQueueItem.
KnownActions == {"create_sale", "create_order", "update_stock", "create_expense"}

\* An attempt the server answers 2xx.
Delivered(t) == PQAttempt(t) /\ accepted' # accepted

\* addToSyncQueue called with one of the actions of SyncQueueItem.
AddKnownCall(t, b) ==
    /\ AddCall(t, b)
    /\ task'[t].item.action \in KnownActions

\* One caller that enqueues items of known actions, a bounded number of
\* them, and runs passes one after the other; the storage works.
NextDrain ==
    \/ AddKnownCall("ui", MaxIdsDrain)
    \/ AddGet("ui") \/ AddSet("ui")
    \/ PassStep("ui") \/ PQAgain("ui")
    \/ Return("ui")

\* Every await of the caller settles and the caller goes on to run passes
\* (weak fairness), and the server does not refuse for ever: of the attempts
\* made again and again, one is answered 2xx (strong fairness).
SpecDrain ==
    /\ Init /\ [][NextDrain]_vars
    /\ WF_vars(AddGet("ui") \/ AddSet("ui") \/ PassStep("ui") \/ Return("ui"))
    /\ SF_vars(Delivered("ui"))

\* ================================================================= claims
Ids(q) == {q[k].id : k \in 1..Len(q)}
CountId(q, id) == Cardinality({k \in 1..Len(q) : q[k].id = id})
Finished(t, op) == task[t].pc = "done" /\ task[t].op = op

\* C1: when addToSyncQueue has returned an id, getSyncQueue() holds exactly
\* one item with that id; when removeFromSyncQueue(id) has returned,
\* getSyncQueue() holds none.
EnqueueRemoveRoundTrip ==
    \A t \in Tasks :
        /\ Finished(t, "addToSyncQueue") =>
              /\ task[t].ret = task[t].item.id
              /\ CountId(getSyncQueue, task[t].ret) = 1
        /\ Finished(t, "removeFromSyncQueue") =>
              CountId(getSyncQueue, task[t].arg) = 0

\* An id was removed that the queue held, from among other items.
EnqueueRemoveWitness ==
    \E t \in Tasks :
        /\ Finished(t, "removeFromSyncQueue")
        /\ CountId(task[t].pre, task[t].arg) = 1
        /\ Len(task[t].pre) = 3
        /\ Len(getSyncQueue) = 2

\* C2: when removeFromSyncQueue(id) has returned, a second
\* removeFromSyncQueue(id) would write back the persisted queue as it is; and
\* when the queue did not hold the id, getSyncQueue() is what it was before.
IdempotentRemoval ==
    \A t \in Tasks :
        Finished(t, "removeFromSyncQueue") =>
            /\ StringifyQueue(Filtered(getSyncQueue, task[t].arg))
                  = storage[STORAGE_KEYS.SYNC_QUEUE]
            /\ CountId(task[t].pre, task[t].arg) = 0 =>
                  getSyncQueue = task[t].pre

\* An id the queue does not hold was removed from a queue of two items.
IdempotentRemovalWitness ==
    \E t \in Tasks :
        /\ Finished(t, "removeFromSyncQueue")
        /\ CountId(task[t].pre, task[t].arg) = 0
        /\ Len(task[t].pre) = 2

\* Where an id stands in the order the ids were returned in.
IssueRank(id) == CHOOSE k \in 1..Len(issued) : issued[k] = id

\* C3: getSyncQueue() lists the items in the order their enqueues returned,
\* whatever was read in between, and a stringify/parse round trip of the
\* list gives the same list.
FIFOPreservation ==
    \A q \in {getSyncQueue} :
        /\ \A k \in 1..Len(q) : \E n \in 1..Len(issued) : issued[n] = q[k].id
        /\ \A k \in 1..(Len(q) - 1) :
              IssueRank(q[k].id) < IssueRank(q[k + 1].id)
        /\ ParseQueue(StringifyQueue(q)) = q
        /\ \A t \in Tasks : Finished(t, "getSyncQueue") => task[t].ret = q

\* Three items were enqueued and a read returned the three of them.
FIFOWitness ==
    \E t \in Tasks :
        /\ Finished(t, "getSyncQueue")
        /\ Len(task[t].ret) = 3
        /\ Len(issued) = 3

\* C4: when every item of the snapshot got a success response, the pass
\* returns remaining = 0 and getSyncQueue() is empty.
AllDeliveredEmptiesQueue ==
    \A t \in Tasks :
        (Finished(t, "processSyncQueue") /\ task[t].okIds = Ids(task[t].snap)) =>
            /\ task[t].ret.remaining = 0
            /\ task[t].ret.synced = Len(task[t].snap)
            /\ getSyncQueue = <<>>

\* A pass delivered a queue of three items.
AllDeliveredWitness ==
    \E t \in Tasks :
        /\ Finished(t, "processSyncQueue")
        /\ Len(task[t].snap) = 3
        /\ task[t].okIds = Ids(task[t].snap)

\* C5: processSyncQueue never rejects, and when it has returned, every item
\* whose attempt ended in a network failure or a non-success status is in
\* getSyncQueue(), failed counts exactly these items and synced exactly the
\* accepted ones.
FailedItemsRetained ==
    \A t \in Tasks :
        task[t].op = "processSyncQueue" =>
            /\ task[t].pc # "threw"
            /\ task[t].pc = "done" =>
                  /\ \A id \in task[t].failedIds : CountId(getSyncQueue, id) = 1
                  /\ task[t].ret.failed = Cardinality(task[t].failedIds)
                  /\ task[t].ret.synced = Cardinality(task[t].okIds)
                  /\ task[t].failedIds \cap task[t].okIds = {}

\* A pass in which one item was accepted and two attempts failed.
FailedItemsWitness ==
    \E t \in Tasks :
        /\ Finished(t, "processSyncQueue")
        /\ Cardinality(task[t].failedIds) = 2
        /\ Cardinality(task[t].okIds) = 1

\* C9: when saveOfflineSale has returned, getOfflineSales() and
\* getSyncQueue() are each one longer than when it was called; the sale
\* returned is the last of the sales, and the last item of the queue is a
\* create_sale with the sale's product name, quantity and amount.
SaleRecordedAndQueued ==
    \A t \in Tasks :
        Finished(t, "saveOfflineSale") =>
            LET sales == getOfflineSales
                q == getSyncQueue
            IN
            /\ Len(sales) = task[t].pre[1] + 1
            /\ Len(q) = task[t].pre[2] + 1
            /\ sales[Len(sales)] = task[t].ret
            /\ task[t].ret.product_name = task[t].arg.product_name
            /\ task[t].ret.quantity = task[t].arg.quantity
            /\ task[t].ret.amount_ngn = task[t].arg.amount_ngn
            /\ q[Len(q)].id = task[t].item.id
            /\ q[Len(q)].action = "create_sale"
            /\ q[Len(q)].retries = 0
            /\ q[Len(q)].payload.product_name = task[t].ret.product_name
            /\ q[Len(q)].payload.quantity = task[t].ret.quantity
            /\ q[Len(q)].payload.amount_ngn = task[t].ret.amount_ngn

\* A sale was saved behind another sale and behind a queued item.
SaleRecordedWitness ==
    \E t \in Tasks :
        /\ Finished(t, "saveOfflineSale")
        /\ task[t].pre[1] = 1
        /\ task[t].pre[2] = 2

\* C6: when cacheProducts(L) (cacheOrders(L)) has returned,
\* getCachedProducts() (getCachedOrders()) is L, in L's order, whatever was
\* cached before.
CacheRoundTrip ==
    \A t \in Tasks :
        /\ Finished(t, "cacheProducts") =>
              getCachedProducts = ListResult(task[t].arg)
        /\ Finished(t, "cacheOrders") =>
              getCachedOrders = ListResult(task[t].arg)

\* A list of two was cached over another list of two.
CacheRoundTripWitness ==
    \E t \in Tasks :
        /\ Finished(t, "cacheOrders")
        /\ ~task[t].pre.isNull
        /\ Len(task[t].pre.items) = 2
        /\ Len(task[t].arg) = 2
        /\ task[t].pre.items # task[t].arg

\* C7: checkConnectivity never rejects, and it returns true exactly when the
\* health request was answered within ProbeTimeoutMs with a success status.
ProbeFailsClosed ==
    \A t \in Tasks :
        task[t].op = "checkConnectivity" =>
            /\ task[t].pc # "threw"
            /\ task[t].pc = "done" =>
                  (task[t].ret = TRUE <=>
                      /\ task[t].probe[1] >= 0
                      /\ task[t].probe[1] < ProbeTimeoutMs
                      /\ task[t].probe[2] = "ok")

\* The endpoint never answered, and the probe returned false.
ProbeTimeoutWitness ==
    \E t \in Tasks :
        /\ Finished(t, "checkConnectivity")
        /\ task[t].probe[1] < 0
        /\ task[t].ret = FALSE

\* C8: when clearAllCache has returned, getCachedProducts() is null and
\* getSyncQueue() is empty, and so are the orders, the offline sales and the
\* last-sync time.
ClearAllEmpties ==
    \A t \in Tasks :
        Finished(t, "clearAllCache") =>
            /\ getCachedProducts = NullResult
            /\ getSyncQueue = <<>>
            /\ getCachedOrders = NullResult
            /\ getOfflineSales = <<>>
            /\ storage[STORAGE_KEYS.LAST_SYNC] = NullValue

\* clearAllCache ran on a store with every key set.
ClearAllWitness ==
    \E t \in Tasks :
        /\ Finished(t, "clearAllCache")
        /\ task[t].pre = AllKeys

\* C10: whenever no saveOfflineSale is in progress, every recorded sale has
\* had its create_sale item enqueued: there are no more recorded sales than
\* items that addToSyncQueue was asked for by saveOfflineSale and returned
\* the id of.
SaleAtomicity ==
    (\A t \in Tasks :
        task[t].op = "saveOfflineSale" => task[t].pc \in {"done", "threw"})
    => Len(getOfflineSales) <= queuedSales

\* The callers with a processSyncQueue pass inside its loop, at an item of
\* its snapshot.
Passes ==
    {t \in Tasks : /\ task[t].op = "processSyncQueue"
                   /\ task[t].pc \notin {"idle", "done", "threw"}
                   /\ task[t].i <= Len(task[t].snap)}

\* C11: at no point are two processSyncQueue passes iterating over queue
\* snapshots at the same time.
NonReentrantPass == Cardinality(Passes) <= 1

\* C12: every item addToSyncQueue has returned the id of is in the persisted
\* queue, or the server has answered 2xx for it.
DestroyedOnlyOnAcceptance ==
    \A n \in 1..Len(issued) :
        CountId(getSyncQueue, issued[n]) >= 1 \/ issued[n] \in accepted

\* C14: no two records of getOfflineSales() have the same id, also when
\* saveOfflineSale built both within one clock reading.
SaleIdsUnique ==
    LET sales == getOfflineSales IN
    \A k, l \in 1..Len(sales) : k # l => sales[k].id # sales[l].id

\* C15: no function rejects because a stored string does not parse: a value
\* that is missing or corrupt reads as absent and the function returns.
CorruptReadsAbsorbed ==
    \A t \in Tasks : task[t].pc = "threw" => task[t].err # "SyntaxError"

\* C16: no function rejects because AsyncStorage.setItem rejected: a write
\* failure is logged and the function returns.
WriteFailuresSwallowed ==
    \A t \in Tasks : task[t].pc = "threw" => task[t].err # "setItem"

\* The ids of the items of q whose action is none of them.
UnknownIds(q) ==
    {q[k].id : k \in {j \in 1..Len(q) : q[j].action \notin KnownActions}}

\* C17: processSyncQueue sends no request for an item of an unknown action
\* and does not reject; when it has returned, the item is counted neither in
\* synced nor in failed, it is in getSyncQueue(), and the loop has gone
\* through the whole snapshot.
UnknownActionSkipped ==
    \A t \in Tasks :
        task[t].op = "processSyncQueue" =>
            LET unknown == UnknownIds(task[t].snap) IN
            /\ task[t].pc # "threw"
            /\ unknown \cap (task[t].okIds \cup task[t].failedIds) = {}
            /\ task[t].pc = "done" =>
                  /\ task[t].ret.synced + task[t].ret.failed
                        = Len(task[t].snap) - Cardinality(unknown)
                  /\ \A id \in unknown : CountId(getSyncQueue, id) = 1
                  /\ task[t].i = Len(task[t].snap) + 1

\* A pass skipped the first item of its snapshot and delivered the second.
UnknownActionWitness ==
    \E t \in Tasks :
        /\ Finished(t, "processSyncQueue")
        /\ Len(task[t].snap) >= 2
        /\ task[t].snap[1].id \in UnknownIds(task[t].snap)
        /\ task[t].snap[2].id \in task[t].okIds

\* C18: the remaining a pass returns is the length of its snapshot minus the
\* synced it returns, and at no point has the pass counted (synced + failed)
\* more items than the snapshot holds.
PassCounts ==
    \A t \in Tasks :
        task[t].op = "processSyncQueue" =>
            /\ task[t].synced + task[t].failed <= Len(task[t].snap)
            /\ task[t].pc = "done" =>
                  /\ task[t].ret.remaining = Len(task[t].snap) - task[t].ret.synced
                  /\ task[t].ret.synced + task[t].ret.failed <= Len(task[t].snap)
                  /\ task[t].ret.remaining >= 0

\* A pass over three items delivered one, failed on one and skipped one.
PassCountsWitness ==
    \E t \in Tasks :
        /\ Finished(t, "processSyncQueue")
        /\ Len(task[t].snap) = 3
        /\ task[t].ret.synced = 1
        /\ task[t].ret.failed = 1

\* C19: when a pass has returned with synced > 0, the last-sync value is the
\* time of its end; with synced = 0, it is what it was when the pass began;
\* and it is null as long as the server has accepted no item.
LastSyncStamp ==
    /\ \A t \in Tasks :
          Finished(t, "processSyncQueue") =>
              IF task[t].ret.synced > 0
              THEN storage[STORAGE_KEYS.LAST_SYNC] = PlainText(ISOString(now))
              ELSE storage[STORAGE_KEYS.LAST_SYNC] = task[t].kept
    /\ accepted = {} => storage[STORAGE_KEYS.LAST_SYNC] = NullValue

\* A pass that delivered nothing ended later than the last-sync time an
\* earlier pass had written.
LastSyncWitness ==
    \E t \in Tasks :
        /\ Finished(t, "processSyncQueue")
        /\ task[t].ret.synced = 0
        /\ task[t].ret.failed = 1
        /\ task[t].kept = PlainText(ISOString(0))
        /\ now = 1

\* What reading the stored value v of a cache key gives.
CachedOf(v, prop) ==
    IF v.kind = "json" THEN ListResult(ParseEntities(Prop(v.text, prop)))
                       ELSE NullResult

\* The cache key and property of cacheProducts and cacheOrders.
CacheKey(op) == IF op = "cacheProducts" THEN STORAGE_KEYS.PRODUCTS_CACHE
                                        ELSE STORAGE_KEYS.ORDERS_CACHE
CacheProp(op) == IF op = "cacheProducts" THEN "products" ELSE "orders"

\* The calls of cacheProducts and cacheOrders whose setItem rejected.
FailedCaches ==
    {t \in Tasks : /\ task[t].op \in {"cacheProducts", "cacheOrders"}
                   /\ task[t].err = "setItem"}

\* C20 as amended: a cacheProducts or cacheOrders whose write fails returns
\* normally and leaves the stored snapshot as it was: the next read gives the
\* list cached before, and null only when nothing was cached or the read
\* fails too.
FailedCacheKeepsSnapshot ==
    \A t \in FailedCaches :
        LET key == CacheKey(task[t].op)
            prop == CacheProp(task[t].op)
        IN
        /\ task[t].pc = "done"
        /\ storage[key] = task[t].kept
        /\ GetCached(key, prop) = IF fs = "ok" THEN CachedOf(task[t].kept, prop)
                                               ELSE NullResult

\* A write of a list failed over a cached list of two, and the storage works
\* again.
FailedCacheWitness ==
    \E t \in FailedCaches :
        /\ fs = "ok"
        /\ task[t].kept.kind = "json"
        /\ Len(CachedOf(task[t].kept, CacheProp(task[t].op)).items) = 2
        /\ task[t].arg = <<>>

\* C20: a cacheProducts or cacheOrders whose write fails returns normally,
\* and the next read of that cache gives null.
FailedCacheMisses ==
    \A t \in FailedCaches :
        /\ task[t].pc = "done"
        /\ GetCached(CacheKey(task[t].op), CacheProp(task[t].op)) = NullResult

\* The list an addToSyncQueue read: the list it wrote, without its item.
ListRead(t) == SubSeq(task[t].queue, 1, Len(task[t].queue) - 1)

\* C21: when two addToSyncQueue calls have both returned an id and both had
\* read the same list, getSyncQueue() is the list one of them wrote and holds
\* one of the two items only.
LostUpdate ==
    \A t, u \in Tasks :
        ( /\ t # u
          /\ Finished(t, "addToSyncQueue") /\ Finished(u, "addToSyncQueue")
          /\ ListRead(t) = ListRead(u) ) =>
            /\ getSyncQueue \in {task[t].queue, task[u].queue}
            /\ CountId(getSyncQueue, task[t].ret)
                  + CountId(getSyncQueue, task[u].ret) = 1

\* Two calls have returned their ids, and getSyncQueue() holds one item.
LostUpdateWitness ==
    \E t, u \in Tasks :
        /\ t # u
        /\ Finished(t, "addToSyncQueue") /\ Finished(u, "addToSyncQueue")
        /\ issued = <<task[t].ret, task[u].ret>>
        /\ Ids(getSyncQueue) = {task[u].ret}

\* C22: a pass takes the whole persisted queue as its snapshot, whatever
\* another pass holds, sends requests for items of that queue only, and when
\* it has returned it has sent one for every item of a known action: so two
\* passes whose snapshots overlap each send the items they share.
DoubleSubmit ==
    \A t \in Tasks :
        task[t].op = "processSyncQueue" =>
            /\ task[t].snap = task[t].start
            /\ task[t].okIds \cup task[t].failedIds \subseteq Ids(task[t].start)
            /\ task[t].pc = "done" =>
                  task[t].okIds \cup task[t].failedIds
                      = Ids(task[t].start) \ UnknownIds(task[t].start)

\* The server has accepted one item from both passes.
DoubleSubmitWitness ==
    \E t, u \in Tasks :
        /\ t # u
        /\ task[t].op = "processSyncQueue" /\ task[u].op = "processSyncQueue"
        /\ task[t].okIds \cap task[u].okIds # {}

\* C23: an item whose enqueue returned while a pass was under way, or before
\* it, is in the persisted queue once, unless the server has answered 2xx
\* for it.
EnqueueDuringPassKept ==
    ( /\ Finished("ui", "addToSyncQueue")
      /\ task["timer"].op = "processSyncQueue" ) =>
        \/ CountId(getSyncQueue, task["ui"].ret) = 1
        \/ task["ui"].ret \in accepted

\* C24: no number of failed attempts takes an item out of the rotation: an
\* item an attempt of the pass failed for is still in the persisted queue,
\* and a pass that has returned has sent a request for every item of a known
\* action that was queued at its start and that the pass before it was
\* refused.
NoAbandonment ==
    \A t \in Tasks :
        task[t].op = "processSyncQueue" =>
            /\ task[t].failedIds \subseteq Ids(getSyncQueue)
            /\ task[t].pc = "done" =>
                  (task[t].old \cap Ids(task[t].start))
                        \ UnknownIds(task[t].start)
                      \subseteq task[t].okIds \cup task[t].failedIds

\* A pass has been refused an item the pass before it was refused too, and
\* the item is still queued.
NoAbandonmentWitness ==
    \E t \in Tasks :
        /\ Finished(t, "processSyncQueue")
        /\ task[t].old \cap task[t].failedIds \cap Ids(getSyncQueue) # {}

\* C25: every item of the persisted queue, and of the snapshot of a pass,
\* has retries = 0, however many attempts have failed for it.
RetriesNeverCounted ==
    /\ \A q \in {getSyncQueue} : \A k \in 1..Len(q) : q[k].retries = 0
    /\ \A t \in Tasks : \A k \in 1..Len(task[t].snap) :
          task[t].snap[k].retries = 0

\* An item two passes in a row were refused is in the persisted queue.
RetriesWitness ==
    \E t \in Tasks : \E q \in {getSyncQueue} : \E k \in 1..Len(q) :
        /\ task[t].op = "processSyncQueue"
        /\ q[k].id \in task[t].old
        /\ q[k].id \in task[t].failedIds

\* C26: every record of getOfflineSales() has synced = false, from the
\* moment saveOfflineSale wrote it on, also when a pass has delivered the
\* create_sale item queued for it.
SyncedNeverSet ==
    \A sales \in {getOfflineSales} : \A k \in 1..Len(sales) :
        sales[k].synced = FALSE

\* A pass has returned that delivered a create_sale item, and the sale is on
\* record.
SyncedWitness ==
    \E t \in Tasks :
        /\ Finished(t, "processSyncQueue")
        /\ \E k \in 1..Len(task[t].snap) :
              /\ task[t].snap[k].action = "create_sale"
              /\ task[t].snap[k].id \in task[t].okIds
              /\ task[t].snap[k].id \notin Ids(getSyncQueue)
        /\ getOfflineSales # <<>>

\* The ids of the items of q that have a known action, in the order of q.
KnownIdSeq(q) ==
    LET known == SelectSeq(q, LAMBDA item : item.action \in KnownActions)
    IN  [k \in 1..Len(known) |-> known[k].id]

\* How many items of its snapshot a pass has dealt with or has a request
\* out for.
Reached(t) ==
    IF task[t].pc \in {"rm_get", "rm_set"} THEN task[t].i ELSE task[t].i - 1

\* C27: a pass works on the list it read at its start: the requests it has
\* sent are those for the known-action items of the snapshot's head, in the
\* order of the snapshot and one for each; a removal under way belongs to the
\* last request sent, so no request is sent before the attempt before it is
\* over; and no request is for an item that was enqueued after the read.
SnapshotOrder ==
    \A t \in Tasks :
        task[t].op = "processSyncQueue" =>
            /\ task[t].snap = task[t].start
            /\ task[t].sent = KnownIdSeq(SubSeq(task[t].start, 1, Reached(t)))
            /\ \A k, l \in 1..Len(task[t].sent) :
                  k # l => task[t].sent[k] # task[t].sent[l]
            /\ task[t].pc \in {"rm_get", "rm_set"} =>
                  task[t].rmId = task[t].sent[Len(task[t].sent)]
            /\ \A k \in 1..Len(task[t].sent) :
                  task[t].sent[k] \in Ids(task[t].start)

\* A pass that has not returned has sent two requests, while an
\* item enqueued after its read is in the persisted queue.
SnapshotOrderWitness ==
    \E t \in Tasks :
        /\ task[t].op = "processSyncQueue"
        /\ task[t].pc = "pq_loop"
        /\ Len(task[t].sent) = 2
        /\ Ids(getSyncQueue) \ Ids(task[t].start) # {}

\* C28: when a pass with nothing running beside it has read a snapshot with
\* items in it and has returned, and the queue is readable, the remaining it
\* returned is the length of getSyncQueue(), and no item it counted in synced
\* is in the queue, also when AsyncStorage rejected a call of one of its
\* removals.
PassSummaryTrue ==
    \A t \in Tasks :
        ( /\ Finished(t, "processSyncQueue")
          /\ task[t].snap # <<>>
          /\ ReadOk(STORAGE_KEYS.SYNC_QUEUE) ) =>
            /\ task[t].ret.remaining = Len(getSyncQueue)
            /\ task[t].okIds \cap Ids(getSyncQueue) = {}

\* The ids a pass got a 2xx answer for and whose removal has returned.
Removed(t) ==
    IF task[t].pc \in {"rm_get", "rm_set"}
    THEN task[t].okIds \ {task[t].rmId}
    ELSE task[t].okIds

\* C29: an item the server accepted and the pass removed is not in the
\* persisted queue again, whatever addToSyncQueue does meanwhile.
RemovedStaysRemoved ==
    \A t \in Tasks :
        task[t].op = "processSyncQueue" =>
            Removed(t) \cap Ids(getSyncQueue) = {}

\* C30: with passes run one after the other, a last enqueue, items of known
\* actions only, a storage that works and a server that does not refuse for
\* ever, every pass returns and the persisted queue becomes empty and stays
\* empty.
EventualDrain ==
    /\ (task["ui"].op = "processSyncQueue") ~> Finished("ui", "processSyncQueue")
    /\ <>[](getSyncQueue = <<>>)

\* Every item was enqueued, the pass before this one was refused an item, and
\* this pass has returned and left the queue empty.
EventualDrainWitness ==
    /\ Finished("ui", "processSyncQueue")
    /\ Len(issued) = MaxIdsDrain
    /\ task["ui"].old # {}
    /\ task["ui"].okIds # {}
    /\ getSyncQueue = <<>>

====
